---- MODULE Spec2Model ----
(***************************************************************************)
(* A model of the sec-parser semantic segmentation code:                   *)
(*   - EnhancedSECParser (src/sec-parser-taibui/parser.py): the text and   *)
(*     element classifiers, the recursive tree builder and table traversal *)
(*   - SectionManager (src/sec-parser-external/.../section_manager.py)     *)
(*                                                                         *)
(* Conventions.  A Python str is a sequence of one-character strings, so   *)
(* that startswith, strip, split, isupper, len and re.match are computed.  *)
(* A confidence is held in hundredths (0.95 is 95, the default 1.0 is 100).*)
(* Python's None for a section is the record NoneSection.                  *)
(***************************************************************************)
EXTENDS Integers, Sequences, FiniteSets, TLC

VARIABLES
    doc,        \* the node tree handed to parse_html (BeautifulSoup's result)
    tree,       \* the SemanticElement tree returned by parse_html
    pc,         \* position of the tree-building run
    text,       \* the text run handed to the text classifier
    result,     \* what _classify_text returned for it
    sub,        \* what _is_subheader returned for it
    elements,   \* the element list SectionManager.process works on
    afterFirst, \* the sections the list held after the first run
    runs,       \* how many times SectionManager.process has run
    verbose,    \* the dicts to_dict(for_llm=False) has returned for the tree
    compact,    \* the dicts to_dict(for_llm=True) has returned for the tree
    driver,     \* which batch driver runs: its parser class
    files,      \* the documents of the input directory, in listing order
    heap,       \* the root objects that exist; heap[1] is the parser's self.root
    rets,       \* per file processed, the reference parse_file returned
    snaps,      \* per file processed, the tree as it was when it was returned
    written,    \* per file processed, what the driver wrote for it
    step,       \* how many passes of SECParser's pipeline have run
    before,     \* the element list as it was handed to the last pass
    caller,     \* the crawler method that was called
    retries,    \* the retries argument of _make_request
    attempt,    \* the loop variable of _make_request
    events,     \* the GETs and sleeps _make_request has done, in order
    returned,   \* what _make_request returned
    downloaded  \* what download_filing returned

vars == <<doc, tree, pc, text, result, sub, elements, afterFirst, runs,
          verbose, compact, driver, files, heap, rets, snaps, written,
          step, before, caller, retries, attempt, events, returned,
          downloaded>>

builderVars == <<doc, tree, pc, verbose, compact>>

classifierVars == <<text, result, sub>>

sectionVars == <<elements, afterFirst, runs>>

batchVars == <<driver, files, heap, rets, snaps, written>>

pipelineVars == <<step, before>>

crawlerVars == <<caller, retries, attempt, events, returned, downloaded>>

(***************************************************************************)
(* Bounds of the model and constants of the program.                       *)
(***************************************************************************)
MaxWords == 11
MaxWordLen == 6
MaxDepth == 3
MaxKids == 2
MaxRows == 2
MaxCells == 2
MaxElems == 3
MaxRuns == 3

SubheaderMaxWords == 10
UpperTitleMaxLen == 50

(***************************************************************************)
(* Characters and Python's str operations.                                 *)
(***************************************************************************)
Upper ==
    {"A", "B", "C", "D", "E", "F", "G", "H", "I", "J", "K", "L", "M",
     "N", "O", "P", "Q", "R", "S", "T", "U", "V", "W", "X", "Y", "Z"}

Lower ==
    {"a", "b", "c", "d", "e", "f", "g", "h", "i", "j", "k", "l", "m",
     "n", "o", "p", "q", "r", "s", "t", "u", "v", "w", "x", "y", "z"}

Digit ==
    {"0", "1", "2", "3", "4", "5", "6", "7", "8", "9"}

Space ==
    {" ", "\t", "\n", "\r"}

Punct ==
    {"(", ")", ".", ",", "-", ":"}

Char ==
    Upper \cup Lower \cup Digit \cup Space \cup Punct

SetMin(S) ==
    CHOOSE x \in S : \A y \in S : x <= y

SetMax(S) ==
    CHOOSE x \in S : \A y \in S : x >= y

\* str.strip(): the text without its leading and trailing whitespace.
strip(s) ==
    LET keep == {i \in 1..Len(s) : s[i] \notin Space}
    IN  IF keep = {} THEN <<>> ELSE SubSeq(s, SetMin(keep), SetMax(keep))

\* str.startswith(prefix)
startswith(s, prefix) ==
    /\ Len(s) >= Len(prefix)
    /\ SubSeq(s, 1, Len(prefix)) = prefix

\* str.startswith(tuple of prefixes)
startswith_any(s, prefixes) ==
    \E p \in prefixes : startswith(s, p)

\* str.isupper(): at least one cased character, and no lowercase one.
isupper(s) ==
    /\ \E i \in 1..Len(s) : s[i] \in Upper
    /\ \A i \in 1..Len(s) : s[i] \notin Lower

\* len(str.split()): the number of maximal runs of non-whitespace.
split_len(s) ==
    Cardinality({i \in 1..Len(s) :
        /\ s[i] \notin Space
        /\ (i = 1 \/ s[i - 1] \in Space)})

\* One item of a regular expression: a character class, once or repeated (+).
One(S) ==
    [set |-> S, plus |-> FALSE]

Plus(S) ==
    [set |-> S, plus |-> TRUE]

\* re.match(pattern, text) for a pattern that is a sequence of such items,
\* anchored at the start of the text: does item k onwards match from pos?
RECURSIVE MatchFrom(_, _, _, _)
MatchFrom(pat, k, s, pos) ==
    IF k > Len(pat) THEN TRUE
    ELSE IF pos > Len(s) THEN FALSE
    ELSE IF s[pos] \notin pat[k].set THEN FALSE
    ELSE \/ MatchFrom(pat, k + 1, s, pos + 1)
         \/ pat[k].plus /\ MatchFrom(pat, k, s, pos + 1)

re_match(pat, s) ==
    MatchFrom(pat, 1, s, 1)

(***************************************************************************)
(* The literals of the classifiers.                                        *)
(***************************************************************************)
S_Item ==
    <<"I", "t", "e", "m">>

S_Note ==
    <<"N", "o", "t", "e">>

S_SeeAccompanying ==
    <<"S", "e", "e", " ", "a", "c", "c", "o", "m", "p", "a", "n", "y", "i", "n", "g">>

S_SeeNote ==
    <<"S", "e", "e", " ", "N", "o", "t", "e">>

SupplementaryMarkers ==
    {S_Note, S_SeeAccompanying, S_SeeNote}

LetteredMarkers ==
    {<<"(", "a", ")">>, <<"(", "b", ")">>, <<"(", "c", ")">>, <<"(", "d", ")">>}

\* subheader_patterns of _is_subheader, in order.
subheader_patterns ==
    << <<One({"("}), One(Lower), One({")"}), Plus(Space), One(Upper)>>,
       <<One({"("}), Plus(Digit), One({")"}), Plus(Space), One(Upper)>>,
       <<One({"("}), Plus({"i", "v", "x"}), One({")"}), Plus(Space), One(Upper)>>,
       <<One(Lower), One({"."}), Plus(Space), One(Upper)>>,
       <<Plus(Digit), One({"."}), Plus(Space), One(Upper)>> >>

(***************************************************************************)
(* ElementType and the values the classifiers return.                      *)
(***************************************************************************)
ElementType ==
    {"DOCUMENT", "SECTION_TITLE", "PARAGRAPH", "TABLE", "TABLE_ROW",
     "TABLE_CELL", "LIST", "LIST_ITEM", "TEXT", "SUPPLEMENTARY_TEXT",
     "CONTAINER"}

\* A returned (ElementType, confidence) tuple, and a returned bool.
PyTuple(t, c) ==
    [kind |-> "tuple", b |-> TRUE, type |-> t, conf |-> c]

PyBool(v) ==
    [kind |-> "bool", b |-> v, type |-> "", conf |-> 0]

\* Python's truth value: a non-empty tuple is true, a bool is itself.
Truthy(v) ==
    IF v.kind = "bool" THEN v.b ELSE TRUE

\* _is_subheader: False for the empty text, else a tuple on every path.
_is_subheader(raw) ==
    LET s == strip(raw)
    IN  IF s = <<>> THEN PyBool(FALSE)
        ELSE IF \E k \in 1..Len(subheader_patterns) :
                    re_match(subheader_patterns[k], s)
             THEN PyTuple("SECTION_TITLE", 95)
        ELSE IF split_len(s) <= SubheaderMaxWords /\ s[1] \in Upper
             THEN PyTuple("SECTION_TITLE", 90)
        ELSE PyTuple("TEXT", 80)

\* A function that ends without a return statement returns None.
PyNone ==
    [kind |-> "NoneType", b |-> FALSE, type |-> "", conf |-> 0]

\* _classify_text as it would be without its final else branch: a text no
\* rule matches falls off the end of the function.
_classify_text_no_fallback(raw) ==
    LET s == strip(raw)
    IN  IF startswith(s, S_Item) THEN PyTuple("SECTION_TITLE", 95)
        ELSE IF Truthy(_is_subheader(s)) THEN PyTuple("SECTION_TITLE", 90)
        ELSE IF startswith_any(s, SupplementaryMarkers)
             THEN PyTuple("SUPPLEMENTARY_TEXT", 90)
        ELSE IF Len(s) < UpperTitleMaxLen /\ isupper(s)
             THEN PyTuple("SECTION_TITLE", 85)
        ELSE PyNone

\* _classify_text: the first rule whose test is true.
_classify_text(raw) ==
    LET s == strip(raw)
    IN  IF startswith(s, S_Item) THEN PyTuple("SECTION_TITLE", 95)
        ELSE IF Truthy(_is_subheader(s)) THEN PyTuple("SECTION_TITLE", 90)
        ELSE IF startswith_any(s, SupplementaryMarkers)
             THEN PyTuple("SUPPLEMENTARY_TEXT", 90)
        ELSE IF Len(s) < UpperTitleMaxLen /\ isupper(s)
             THEN PyTuple("SECTION_TITLE", 85)
        ELSE PyTuple("TEXT", 80)

(***************************************************************************)
(* The parsed-HTML node tree (BeautifulSoup) and the accessors the code    *)
(* uses.  A tag has a name and ordered children; a NavigableString has no  *)
(* name (the empty name stands for None) and carries its characters in     *)
(* string.  id is the node's identity: its path of child indices from the  *)
(* root of its document.                                                    *)
(***************************************************************************)
N_document ==
    <<"[", "d", "o", "c", "u", "m", "e", "n", "t", "]">>

N_script ==
    <<"s", "c", "r", "i", "p", "t">>

N_style ==
    <<"s", "t", "y", "l", "e">>

N_table ==
    <<"t", "a", "b", "l", "e">>

N_tr ==
    <<"t", "r">>

N_td ==
    <<"t", "d">>

N_th ==
    <<"t", "h">>

N_span ==
    <<"s", "p", "a", "n">>

N_div ==
    <<"d", "i", "v">>

N_p ==
    <<"p">>

N_ul ==
    <<"u", "l">>

N_ol ==
    <<"o", "l">>

N_li ==
    <<"l", "i">>

N_caption ==
    <<"c", "a", "p", "t", "i", "o", "n">>

N_h(k) ==
    <<"h", k>>

HeadingNames ==
    {N_h("1"), N_h("2"), N_h("3"), N_h("4"), N_h("5"), N_h("6")}

St_bold ==
    <<"f", "o", "n", "t", "-", "w", "e", "i", "g", "h", "t", ":", "7", "0", "0">>

St_underline ==
    <<"t", "e", "x", "t", "-", "d", "e", "c", "o", "r", "a", "t", "i", "o", "n", ":",
      "u", "n", "d", "e", "r", "l", "i", "n", "e">>

TextNode(s) ==
    [name |-> <<>>, string |-> s, style |-> <<>>, children |-> <<>>, id |-> <<>>]

Styled(n, st, kids) ==
    [name |-> n, string |-> <<>>, style |-> st, children |-> kids, id |-> <<>>]

Tag(n, kids) ==
    Styled(n, <<>>, kids)

IsTag(node) ==
    node.name # <<>>

\* Python's `sub in s` for strings.
contains(s, t) ==
    \E i \in 0..(Len(s) - Len(t)) : SubSeq(s, i + 1, i + Len(t)) = t

\* Sequence concatenation over a sequence of sequences.
RECURSIVE Flatten(_)
Flatten(ss) ==
    IF ss = <<>> THEN <<>> ELSE Head(ss) \o Flatten(Tail(ss))

\* Tag.string: the single NavigableString a tag holds, directly or through
\* a chain of only children; None (the empty sequence) otherwise.
RECURSIVE dot_string(_)
dot_string(element) ==
    IF Len(element.children) # 1 THEN <<>>
    ELSE IF ~IsTag(element.children[1]) THEN <<element.children[1]>>
    ELSE dot_string(element.children[1])

\* Tag.get_text(strip=True): every string below the tag, stripped, the empty
\* ones dropped, joined in document order.
RECURSIVE get_text(_)
get_text(node) ==
    IF ~IsTag(node) THEN strip(node.string)
    ELSE Flatten([i \in 1..Len(node.children) |-> get_text(node.children[i])])

\* Tag.find_all(names): every tag below the node, at any depth, whose name is
\* one of names, in document order.
RECURSIVE find_all(_, _)
find_all(node, names) ==
    Flatten([i \in 1..Len(node.children) |->
        (IF node.children[i].name \in names THEN <<node.children[i]>> ELSE <<>>)
        \o find_all(node.children[i], names)])

(***************************************************************************)
(* SemanticElement.  origin (the identity of the input node the element    *)
(* was created for) and via (the place of the builder that created it) are *)
(* history fields, not fields of the class.                                *)
(***************************************************************************)
SemanticElement(element_type, txt, level, confidence) ==
    [element_type |-> element_type, text |-> txt, level |-> level,
     confidence |-> confidence, children |-> <<>>,
     origin |-> <<>>, via |-> "root"]

CreatedFor(se, node, via) ==
    [se EXCEPT !.origin = node.id, !.via = via]

\* add_child as it would be if it only appended: the child keeps the level
\* its constructor was given.
add_child_keeps_level(self, child) ==
    [self EXCEPT !.children = Append(@, child)]

\* add_child: the child's level is set from self at attach time.
add_child(self, child) ==
    [self EXCEPT !.children = Append(@, [child EXCEPT !.level = self.level + 1])]

last_child(self) ==
    self.children[Len(self.children)]

\* The element just attached is the same object the builder goes on to fill:
\* its later changes are changes of the parent's last child.
set_last_child(self, child) ==
    [self EXCEPT !.children[Len(self.children)] = child]

\* _classify_element as it would be with its fallback confidence written as
\* a percentage (80) where a fraction (0.8) is meant.
_classify_element_percent(element) ==
    IF /\ element.name = N_span
       /\ startswith(get_text(element), S_Item)
       /\ contains(element.style, St_bold)
    THEN PyTuple("SECTION_TITLE", 95)
    ELSE IF /\ element.name = N_span
            /\ startswith_any(get_text(element), LetteredMarkers)
            /\ contains(element.style, St_underline)
    THEN PyTuple("SECTION_TITLE", 90)
    ELSE IF element.name \in HeadingNames THEN PyTuple("SECTION_TITLE", 95)
    ELSE IF element.name = N_p THEN PyTuple("PARAGRAPH", 90)
    ELSE IF element.name = N_table THEN PyTuple("TABLE", 95)
    ELSE IF element.name \in {N_ul, N_ol} THEN PyTuple("LIST", 90)
    ELSE IF element.name = N_li THEN PyTuple("LIST_ITEM", 90)
    ELSE PyTuple("CONTAINER", 8000)

\* _classify_element as it would be with the tag rules tried before the span
\* overrides: a span falls to the last tag rule and the overrides are dead.
_classify_element_tags_first(element) ==
    IF element.name \in HeadingNames THEN PyTuple("SECTION_TITLE", 95)
    ELSE IF element.name = N_p THEN PyTuple("PARAGRAPH", 90)
    ELSE IF element.name = N_table THEN PyTuple("TABLE", 95)
    ELSE IF element.name \in {N_ul, N_ol} THEN PyTuple("LIST", 90)
    ELSE IF element.name = N_li THEN PyTuple("LIST_ITEM", 90)
    ELSE PyTuple("CONTAINER", 80)

\* _classify_element: the span overrides, then the tag rules.
_classify_element(element) ==
    LET txt == get_text(element)
    IN  IF /\ element.name = N_span
           /\ startswith(txt, S_Item)
           /\ contains(element.style, St_bold)
        THEN PyTuple("SECTION_TITLE", 95)
        ELSE IF /\ element.name = N_span
                /\ startswith_any(txt, LetteredMarkers)
                /\ contains(element.style, St_underline)
        THEN PyTuple("SECTION_TITLE", 90)
        ELSE IF element.name \in HeadingNames THEN PyTuple("SECTION_TITLE", 95)
        ELSE IF element.name = N_p THEN PyTuple("PARAGRAPH", 90)
        ELSE IF element.name = N_table THEN PyTuple("TABLE", 95)
        ELSE IF element.name \in {N_ul, N_ol} THEN PyTuple("LIST", 90)
        ELSE IF element.name = N_li THEN PyTuple("LIST_ITEM", 90)
        ELSE PyTuple("CONTAINER", 80)

\* _process_table, inner loop: one TABLE_CELL per td/th below the row, from
\* the i-th on; table_level is parent.level of _process_table.
RECURSIVE add_cells(_, _, _, _)
add_cells(cells, i, table_level, row_element) ==
    IF i > Len(cells) THEN row_element
    ELSE LET cell_element ==
                 CreatedFor(SemanticElement("TABLE_CELL", get_text(cells[i]),
                                            table_level + 1, 95),
                            cells[i], "cell")
         IN  add_cells(cells, i + 1, table_level,
                       add_child(row_element, cell_element))

\* _process_table, outer loop: one TABLE_ROW per tr below the table.
RECURSIVE add_rows(_, _, _)
add_rows(rows, i, parent) ==
    IF i > Len(rows) THEN parent
    ELSE LET row_element ==
                 CreatedFor(SemanticElement("TABLE_ROW", N_tr, parent.level + 1, 95),
                            rows[i], "row")
             attached == add_child(parent, row_element)
             filled == add_cells(find_all(rows[i], {N_td, N_th}), 1,
                                 parent.level, last_child(attached))
         IN  add_rows(rows, i + 1, set_last_child(attached, filled))

_process_table(table, parent) ==
    add_rows(find_all(table, {N_tr}), 1, parent)

\* _process_element, the text step: a classified leaf for element.string.
text_step(element, parent) ==
    LET str == dot_string(element)
    IN  IF str # <<>> /\ str[1].string # <<>> /\ strip(str[1].string) # <<>>
        THEN LET txt == strip(str[1].string)
                 cls == _classify_text(txt)
             IN  add_child(parent,
                     CreatedFor(SemanticElement(cls.type, txt, parent.level + 1,
                                                cls.conf),
                                str[1], "text"))
        ELSE parent

RECURSIVE _process_element(_, _)
RECURSIVE process_children(_, _, _)

\* The loop as it would be without its `if child.name` test: a string child
\* is classified and attached like a tag.
RECURSIVE process_children_no_name_test(_, _, _)
process_children_no_name_test(children, i, parent) ==
    IF i > Len(children) THEN parent
    ELSE LET cls == _classify_element(children[i])
             semantic_element ==
                 CreatedFor(SemanticElement(cls.type, children[i].name,
                                            parent.level + 1, cls.conf),
                            children[i], "element")
             attached == add_child(parent, semantic_element)
             filled == _process_element(children[i], last_child(attached))
         IN  process_children_no_name_test(children, i + 1,
                                           set_last_child(attached, filled))

\* _process_element, the loop over element.children from the i-th on.
process_children(children, i, parent) ==
    IF i > Len(children) THEN parent
    ELSE IF ~IsTag(children[i]) THEN process_children(children, i + 1, parent)
    ELSE LET cls == _classify_element(children[i])
             semantic_element ==
                 CreatedFor(SemanticElement(cls.type, children[i].name,
                                            parent.level + 1, cls.conf),
                            children[i], "element")
             attached == add_child(parent, semantic_element)
             filled == _process_element(children[i], last_child(attached))
         IN  process_children(children, i + 1, set_last_child(attached, filled))

_process_element(element, parent) ==
    IF element.name \in {N_script, N_style} THEN parent
    ELSE LET p1 == text_step(element, parent)
         IN  IF element.name = N_table
             THEN LET table_element ==
                          CreatedFor(SemanticElement("TABLE", N_table,
                                                     p1.level + 1, 95),
                                     element, "table")
                      attached == add_child(p1, table_element)
                  IN  set_last_child(attached,
                          _process_table(element, last_child(attached)))
             ELSE process_children(element.children, 1, p1)

\* parse_html: a fresh DOCUMENT root per call, filled from the soup.
parse_html(soup) ==
    _process_element(soup, SemanticElement("DOCUMENT", <<>>, 0, 100))

(***************************************************************************)
(* SemanticElement.to_dict.  A dict is a record whose fields are its keys; *)
(* element_type.name is the type's name.                                   *)
(***************************************************************************)
\* to_dict as it would be if it emitted the children key only for more than
\* one child.
RECURSIVE to_dict_drops_only_child(_, _)
to_dict_drops_only_child(self, for_llm) ==
    LET kids == [i \in 1..Len(self.children) |->
                    to_dict_drops_only_child(self.children[i], for_llm)]
    IN  IF for_llm
        THEN IF Len(self.children) > 1
             THEN [t |-> self.element_type, c |-> self.text, l |-> self.level,
                   ch |-> kids]
             ELSE [t |-> self.element_type, c |-> self.text, l |-> self.level]
        ELSE IF Len(self.children) > 1
             THEN [type |-> self.element_type, content |-> self.text,
                   level |-> self.level, confidence |-> self.confidence,
                   children |-> kids]
             ELSE [type |-> self.element_type, content |-> self.text,
                   level |-> self.level, confidence |-> self.confidence]

\* to_dict as it would be if the compact branch called child.to_dict()
\* without passing for_llm on: the children come out in the verbose shape.
RECURSIVE to_dict_flag_not_passed(_, _)
to_dict_flag_not_passed(self, for_llm) ==
    LET kids == [i \in 1..Len(self.children) |->
                    to_dict_flag_not_passed(self.children[i], FALSE)]
    IN  IF for_llm
        THEN IF self.children # <<>>
             THEN [t |-> self.element_type, c |-> self.text, l |-> self.level,
                   ch |-> kids]
             ELSE [t |-> self.element_type, c |-> self.text, l |-> self.level]
        ELSE IF self.children # <<>>
             THEN [type |-> self.element_type, content |-> self.text,
                   level |-> self.level, confidence |-> self.confidence,
                   children |-> kids]
             ELSE [type |-> self.element_type, content |-> self.text,
                   level |-> self.level, confidence |-> self.confidence]

RECURSIVE to_dict(_, _)
to_dict(self, for_llm) ==
    LET kids == [i \in 1..Len(self.children) |->
                    to_dict(self.children[i], for_llm)]
    IN  IF for_llm
        THEN IF self.children # <<>>
             THEN [t |-> self.element_type, c |-> self.text, l |-> self.level,
                   ch |-> kids]
             ELSE [t |-> self.element_type, c |-> self.text, l |-> self.level]
        ELSE IF self.children # <<>>
             THEN [type |-> self.element_type, content |-> self.text,
                   level |-> self.level, confidence |-> self.confidence,
                   children |-> kids]
             ELSE [type |-> self.element_type, content |-> self.text,
                   level |-> self.level, confidence |-> self.confidence]

\* to_dict as it would be if it walked the children destructively
\* (popping them off the list as it serialises them).
after_to_dict_pops_children(self, for_llm) ==
    [self EXCEPT !.children = <<>>]

\* The element as to_dict leaves it: the method reads the fields of self
\* and of its children and assigns none.
after_to_dict(self, for_llm) ==
    self

(***************************************************************************)
(* The two earlier parsers: the first EnhancedSECParser and                *)
(* SECDocumentParser.  Both create the DOCUMENT root once, in __init__,    *)
(* and parse_html fills and returns that same object on every call.  cls   *)
(* names the class; where the two differ only in what they store in an     *)
(* element the definitions branch on it.  A dict of attributes is the set  *)
(* of its (key, value) pairs; the parent pointer add_child sets is the     *)
(* element's place in the tree.                                            *)
(***************************************************************************)
C_EnhancedSECParser == "EnhancedSECParser"

C_SECDocumentParser == "SECDocumentParser"

\* SemanticElement.__init__ of the earlier classes: level 0, no children;
\* SECDocumentParser's elements have no confidence.
old_SemanticElement(cls, element_type, txt, attributes, confidence) ==
    IF cls = C_SECDocumentParser
    THEN [element_type |-> element_type, text |-> txt,
          attributes |-> attributes, children |-> <<>>, level |-> 0,
          origin |-> <<>>, via |-> "root"]
    ELSE [element_type |-> element_type, text |-> txt,
          attributes |-> attributes, children |-> <<>>, level |-> 0,
          confidence |-> confidence, metadata |-> {},
          origin |-> <<>>, via |-> "root"]

\* {'tag': name}
tag_attributes(name) ==
    {<<"tag", name>>}

\* self.root = SemanticElement(ElementType.DOCUMENT) / SemanticElement('document')
old_init_root(cls) ==
    IF cls = C_SECDocumentParser
    THEN old_SemanticElement(cls, "document", <<>>, {}, 100)
    ELSE old_SemanticElement(cls, "DOCUMENT", <<>>, {}, 100)

\* The first EnhancedSECParser's _classify_text: three rules.
old_classify_text(txt) ==
    IF startswith_any(txt, SupplementaryMarkers)
    THEN PyTuple("SUPPLEMENTARY_TEXT", 90)
    ELSE IF Len(txt) < UpperTitleMaxLen /\ isupper(txt)
    THEN PyTuple("SECTION_TITLE", 85)
    ELSE PyTuple("TEXT", 80)

\* The first EnhancedSECParser's _classify_element: the tag rules only.
old_classify_element(element) ==
    IF element.name \in HeadingNames THEN PyTuple("SECTION_TITLE", 95)
    ELSE IF element.name = N_p THEN PyTuple("PARAGRAPH", 90)
    ELSE IF element.name = N_table THEN PyTuple("TABLE", 95)
    ELSE IF element.name \in {N_ul, N_ol} THEN PyTuple("LIST", 90)
    ELSE IF element.name = N_li THEN PyTuple("LIST_ITEM", 90)
    ELSE PyTuple("CONTAINER", 80)

\* SECDocumentParser._determine_element_type
_determine_element_type(element) ==
    IF element.name \in HeadingNames THEN "section_title"
    ELSE IF element.name = N_p THEN "paragraph"
    ELSE IF element.name = N_table THEN "table"
    ELSE IF element.name \in {N_ul, N_ol} THEN "list"
    ELSE IF element.name = N_li THEN "list_item"
    ELSE "container"

\* The element the text step creates for the stripped element.string.
old_text_element(cls, element, txt) ==
    IF cls = C_SECDocumentParser
    THEN old_SemanticElement(cls, "text", txt, tag_attributes(element.name), 100)
    ELSE old_SemanticElement(cls, old_classify_text(txt).type, txt,
                             tag_attributes(element.name),
                             old_classify_text(txt).conf)

\* The element the children loop creates for a child tag: text defaults
\* to "".
old_child_element(cls, child) ==
    IF cls = C_SECDocumentParser
    THEN old_SemanticElement(cls, _determine_element_type(child), <<>>,
                             tag_attributes(child.name), 100)
    ELSE old_SemanticElement(cls, old_classify_element(child).type, <<>>,
                             tag_attributes(child.name),
                             old_classify_element(child).conf)

\* The element created for a table: confidence 0.95 in EnhancedSECParser.
old_table_element(cls) ==
    IF cls = C_SECDocumentParser
    THEN old_SemanticElement(cls, "table", <<>>, tag_attributes(N_table), 100)
    ELSE old_SemanticElement(cls, "TABLE", <<>>, tag_attributes(N_table), 95)

\* Rows and cells are built without a confidence: the default, 1.0.
old_row_element(cls) ==
    IF cls = C_SECDocumentParser
    THEN old_SemanticElement(cls, "table_row", <<>>, tag_attributes(N_tr), 100)
    ELSE old_SemanticElement(cls, "TABLE_ROW", <<>>, tag_attributes(N_tr), 100)

old_cell_element(cls, cell) ==
    IF cls = C_SECDocumentParser
    THEN old_SemanticElement(cls, "table_cell", get_text(cell),
                             tag_attributes(cell.name), 100)
    ELSE old_SemanticElement(cls, "TABLE_CELL", get_text(cell),
                             tag_attributes(cell.name), 100)

RECURSIVE old_add_cells(_, _, _, _)
old_add_cells(cls, cells, i, row_element) ==
    IF i > Len(cells) THEN row_element
    ELSE old_add_cells(cls, cells, i + 1,
             add_child(row_element,
                       CreatedFor(old_cell_element(cls, cells[i]), cells[i], "cell")))

RECURSIVE old_add_rows(_, _, _, _)
old_add_rows(cls, rows, i, parent) ==
    IF i > Len(rows) THEN parent
    ELSE LET attached ==
                 add_child(parent, CreatedFor(old_row_element(cls), rows[i], "row"))
             filled == old_add_cells(cls, find_all(rows[i], {N_td, N_th}), 1,
                                     last_child(attached))
         IN  old_add_rows(cls, rows, i + 1, set_last_child(attached, filled))

old_process_table(cls, table, parent) ==
    old_add_rows(cls, find_all(table, {N_tr}), 1, parent)

old_text_step(cls, element, parent) ==
    LET str == dot_string(element)
    IN  IF str # <<>> /\ str[1].string # <<>> /\ strip(str[1].string) # <<>>
        THEN add_child(parent,
                 CreatedFor(old_text_element(cls, element, strip(str[1].string)),
                            str[1], "text"))
        ELSE parent

RECURSIVE old_process_element(_, _, _)
RECURSIVE old_process_children(_, _, _, _)

old_process_children(cls, children, i, parent) ==
    IF i > Len(children) THEN parent
    ELSE IF ~IsTag(children[i])
    THEN old_process_children(cls, children, i + 1, parent)
    ELSE LET attached ==
                 add_child(parent,
                     CreatedFor(old_child_element(cls, children[i]),
                                children[i], "element"))
             filled == old_process_element(cls, children[i], last_child(attached))
         IN  old_process_children(cls, children, i + 1,
                                  set_last_child(attached, filled))

old_process_element(cls, element, parent) ==
    IF element.name \in {N_script, N_style} THEN parent
    ELSE LET p1 == old_text_step(cls, element, parent)
         IN  IF element.name = N_table
             THEN LET attached ==
                          add_child(p1, CreatedFor(old_table_element(cls),
                                                   element, "table"))
                  IN  set_last_child(attached,
                          old_process_table(cls, element, last_child(attached)))
             ELSE old_process_children(cls, element.children, 1, p1)

\* to_dict of the earlier classes: every key always, children included.
RECURSIVE old_to_dict(_, _)
old_to_dict(cls, self) ==
    LET kids == [i \in 1..Len(self.children) |->
                    old_to_dict(cls, self.children[i])]
    IN  IF cls = C_SECDocumentParser
        THEN [type |-> self.element_type, text |-> self.text,
              attributes |-> self.attributes, level |-> self.level,
              children |-> kids]
        ELSE [type |-> self.element_type, text |-> self.text,
              attributes |-> self.attributes, level |-> self.level,
              confidence |-> self.confidence, metadata |-> self.metadata,
              children |-> kids]

(***************************************************************************)
(* parse_file on one parser object.  objs is the sequence of the root      *)
(* objects that exist, objs[1] being the parser's self.root; a call gives  *)
(* the objects after it and the reference it returned.                     *)
(***************************************************************************)
\* parse_file as it would be if parse_html filled self.root and returned it.
parse_file_shared_root(objs, soup) ==
    [objs |-> [objs EXCEPT ![1] = _process_element(soup, objs[1])],
     ret |-> 1]

\* EnhancedSECParser.parse_file: parse_html creates a new root object,
\* fills it and returns it.
parse_file(objs, soup) ==
    [objs |-> Append(objs, parse_html(soup)),
     ret |-> Len(objs) + 1]

\* parse_file of the earlier classes: parse_html fills self.root and
\* returns it.
old_parse_file(cls, objs, soup) ==
    [objs |-> [objs EXCEPT ![1] = old_process_element(cls, soup, objs[1])],
     ret |-> 1]

(***************************************************************************)
(* SectionManager.process over a list of elements.  cls is the element's   *)
(* class, text its text, section its section attribute.                    *)
(***************************************************************************)
NoneSection ==
    [some |-> FALSE, v |-> <<>>]

Some(v) ==
    [some |-> TRUE, v |-> v]

\* The loop body from the i-th element on, with the running current_section.
RECURSIVE process_from(_, _, _)
process_from(elems, i, current_section) ==
    IF i > Len(elems) THEN elems
    ELSE LET cur == IF elems[i].cls = "TitleElement"
                    THEN Some(elems[i].text)
                    ELSE current_section
         IN  process_from([elems EXCEPT ![i].section = cur], i + 1, cur)

\* process as it would be if the section were assigned before a title
\* updates current_section: a title gets the section of the one before it.
RECURSIVE process_title_late_from(_, _, _)
process_title_late_from(elems, i, current_section) ==
    IF i > Len(elems) THEN elems
    ELSE process_title_late_from(
             [elems EXCEPT ![i].section = current_section], i + 1,
             IF elems[i].cls = "TitleElement"
             THEN Some(elems[i].text)
             ELSE current_section)

SectionManager_process_title_late(elems) ==
    process_title_late_from(elems, 1, NoneSection)

\* process as it would be if current_section were not reset at the start of
\* a run but carried over from the end of the list's previous pass.
SectionManager_process_carry_over(elems) ==
    process_from(elems, 1,
                 IF elems = <<>> THEN NoneSection ELSE elems[Len(elems)].section)

SectionManager_process(elems) ==
    process_from(elems, 1, NoneSection)

(***************************************************************************)
(* The inputs the model draws from.                                        *)
(***************************************************************************)
SeqsUpTo(S, n) ==
    UNION {[1..k -> S] : k \in 0..n}

Rep(c, n) ==
    [i \in 1..n |-> c]

\* n copies of the word w, separated by single blanks.
RECURSIVE Words(_, _)
Words(w, n) ==
    IF n = 0 THEN <<>>
    ELSE IF n = 1 THEN w
    ELSE w \o <<" ">> \o Words(w, n - 1)

\* A word of the given length: all uppercase, capitalised or all lowercase.
Word(case, len) ==
    CASE case = "upper" -> Rep("A", len)
      [] case = "cap" -> <<"A">> \o Rep("b", len - 1)
      [] OTHER -> Rep("b", len)

T_Dismissal ==
    <<"(", "a", ")", " ", "D", "i", "s", "m", "i", "s", "s", "a", "l", " ",
      "o", "f", " ", "a", "u", "d", "i", "t", "o", "r">>

T_Notes ==
    <<"N", "O", "T", "E", "S", " ", "T", "O", " ", "F", "I", "N", "A", "N", "C",
      "I", "A", "L", " ", "S", "T", "A", "T", "E", "M", "E", "N", "T", "S">>

T_Business ==
    <<"I", "t", "e", "m", " ", "1", ".", " ", "B", "u", "s", "i", "n", "e", "s", "s">>

T_WeOperate ==
    <<"W", "e", " ", "o", "p", "e", "r", "a", "t", "e", ".", ".", ".">>

T_Year ==
    <<"Y", "e", "a", "r">>

T_Revenue ==
    <<"R", "e", "v", "e", "n", "u", "e">>

T_2023 ==
    <<"2", "0", "2", "3">>

T_100 ==
    <<"1", "0", "0">>

\* What a sample text starts with: nothing, the markers of the rules, and
\* near misses of them.
TextPrefixes ==
    {<<>>, <<" ">>, S_Item, S_Item \o <<" ">>,
     <<"(", "a", ")", " ">>, <<"(", "a", ")">>, <<"(", "A", ")", " ">>,
     <<"(", "1", "2", ")", " ">>, <<"(", "i", "v", ")", " ">>,
     <<"a", ".", " ">>, <<"1", ".", " ">>, <<"1", ".">>,
     S_Note \o <<" ">>, S_SeeAccompanying \o <<" ">>, S_SeeNote \o <<" ">>,
     <<"S", "e", "e", " ">>}

SampleTexts ==
    {p \o Words(Word(c, l), n) :
        p \in TextPrefixes, c \in {"upper", "cap", "lower"},
        l \in 1..MaxWordLen, n \in 0..MaxWords}
    \cup {T_Dismissal, T_Notes, T_Business, T_WeOperate}

\* The soup: BeautifulSoup's root object, a tag named [document].
Root(kids) ==
    Tag(N_document, kids)

\* Node identities: the path of child indices from the root.
RECURSIVE WithIds(_, _)
WithIds(node, path) ==
    [node EXCEPT
        !.id = path,
        !.children = [i \in 1..Len(node.children) |->
                         WithIds(node.children[i], Append(path, i))]]

LeafTexts ==
    {<<"I", "t", "e", "m", " ", "1">>, <<" ", "x", "y", " ">>, <<" ">>}

\* A chain of only children, one tag below the other, around the given kids.
RECURSIVE Chain(_, _)
Chain(tags, kids) ==
    IF tags = <<>> THEN kids
    ELSE <<Tag(Head(tags), Chain(Tail(tags), kids))>>

ChainTags ==
    {N_div, N_p, N_script, N_table}

ChainDocs ==
    {Root(Chain(tags, kids)) :
        tags \in SeqsUpTo(ChainTags, MaxDepth),
        kids \in {<<>>} \cup {<<TextNode(t)>> : t \in LeafTexts}}

Table1x1 ==
    Tag(N_table, <<Tag(N_tr, <<Tag(N_td, <<TextNode(<<"c">>)>>)>>)>>)

SimpleNodes ==
    {TextNode(<<"x", "y">>), TextNode(<<" ">>),
     Tag(N_h("1"), <<TextNode(<<"I", "t", "e", "m", " ", "1">>)>>),
     Tag(N_script, <<TextNode(<<"v", "a", "r">>)>>),
     Tag(N_p, <<>>),
     Styled(N_span, St_bold, <<TextNode(<<"I", "t", "e", "m", " ", "2">>)>>),
     Tag(N_div, <<Tag(N_p, <<TextNode(<<" ", "\n">>)>>)>>),
     Table1x1}

\* Sibling lists, directly below the root or below one wrapping tag.
SiblingDocs ==
    {Root(kids) : kids \in SeqsUpTo(SimpleNodes, MaxKids)}
    \cup {Root(<<Tag(w, kids)>>) :
            w \in {N_div, N_script}, kids \in SeqsUpTo(SimpleNodes, MaxKids)}

DigitChars ==
    <<"0", "1", "2", "3", "4", "5", "6", "7", "8", "9">>

CellText(r, c) ==
    <<"c", DigitChars[r + 1], DigitChars[c + 1]>>

CellKinds ==
    {"td", "th", "padded", "empty", "nested", "mixed"}

\* The first cell of a sample table, by kind; every other cell is a td
\* holding its own text.
FirstCell(kind) ==
    CASE kind = "td" -> Tag(N_td, <<TextNode(CellText(1, 1))>>)
      [] kind = "th" -> Tag(N_th, <<TextNode(CellText(1, 1))>>)
      [] kind = "padded" -> Tag(N_td, <<TextNode(<<" ">> \o CellText(1, 1) \o <<"\n">>)>>)
      [] kind = "empty" -> Tag(N_td, <<>>)
      [] kind = "nested" -> Tag(N_td, <<Table1x1>>)
      [] OTHER -> Tag(N_td, <<TextNode(CellText(1, 1)), Table1x1>>)

\* A table whose r-th row has counts[r] cells.
SampleTable(counts, kind, caption) ==
    Tag(N_table,
        (IF caption THEN <<Tag(N_caption, <<TextNode(<<"c", "a", "p">>)>>)>> ELSE <<>>)
        \o [r \in 1..Len(counts) |->
              Tag(N_tr, [c \in 1..counts[r] |->
                  IF r = 1 /\ c = 1 THEN FirstCell(kind)
                  ELSE Tag(N_td, <<TextNode(CellText(r, c))>>)])])

SampleTables ==
    {SampleTable(counts, kind, caption) :
        counts \in SeqsUpTo(0..MaxCells, MaxRows),
        kind \in CellKinds, caption \in BOOLEAN}

TableDocs ==
    {Root(<<t>>) : t \in SampleTables}
    \cup {Root(<<Tag(N_div, <<t>>)>>) : t \in SampleTables}

AllNames ==
    HeadingNames \cup {N_p, N_table, N_ul, N_ol, N_li, N_div, N_span,
                       N_script, N_style, N_tr, N_td, N_th, N_caption}

\* One tag of every name, with every style, around one text.
TagDocs ==
    {Root(<<Styled(n, st, <<TextNode(t)>>)>>) :
        n \in AllNames,
        st \in {<<>>, St_bold, St_underline},
        t \in {<<"I", "t", "e", "m", " ", "4">>, <<"(", "b", ")", " ", "X">>, <<"x">>}}

\* The document of the specification's example: a heading, a paragraph and
\* a table of two rows with two cells each.
SpecExampleDoc ==
    Root(<<Tag(N_h("1"), <<TextNode(T_Business)>>),
           Tag(N_p, <<TextNode(T_WeOperate)>>),
           Tag(N_table,
               <<Tag(N_tr, <<Tag(N_th, <<TextNode(T_Year)>>),
                             Tag(N_th, <<TextNode(T_Revenue)>>)>>),
                 Tag(N_tr, <<Tag(N_td, <<TextNode(T_2023)>>),
                             Tag(N_td, <<TextNode(T_100)>>)>>)>>)>>)

Docs ==
    {WithIds(d, <<1>>) :
        d \in ChainDocs \cup SiblingDocs \cup TableDocs \cup TagDocs
              \cup {SpecExampleDoc}}

SectionTexts ==
    {<<"A">>, <<"B">>}

SampleElements ==
    [cls : {"TextElement", "TitleElement", "TableElement"},
     text : SectionTexts,
     section : {NoneSection, Some(<<"Z">>)}]

(***************************************************************************)
(* The state machines.                                                     *)
(***************************************************************************)
NoTree ==
    SemanticElement("DOCUMENT", <<>>, 0, 100)

\* The value result and sub hold before the call has returned.
NoResult ==
    [kind |-> "none", b |-> FALSE, type |-> "", conf |-> 0]

IdleBuilder ==
    /\ doc = WithIds(Root(<<>>), <<1>>)
    /\ tree = NoTree
    /\ pc = "idle"
    /\ verbose = {}
    /\ compact = {}

IdleClassifier ==
    /\ text = <<>>
    /\ result = NoResult
    /\ sub = NoResult

IdleSections ==
    /\ elements = <<>>
    /\ afterFirst = <<>>
    /\ runs = 0

IdleBatch ==
    /\ driver = "none"
    /\ files = <<>>
    /\ heap = <<>>
    /\ rets = <<>>
    /\ snaps = <<>>
    /\ written = <<>>

IdlePipeline ==
    /\ step = 0
    /\ before = <<>>

\* The value returned and downloaded hold before the call has returned.
Pending ==
    [kind |-> "pending"]

IdleCrawler ==
    /\ caller = "none"
    /\ retries = 0
    /\ attempt = 0
    /\ events = <<>>
    /\ returned = Pending
    /\ downloaded = Pending

\* The tree builder: parse_html on one document.
Init ==
    /\ doc \in Docs
    /\ tree = NoTree
    /\ pc = "ready"
    /\ verbose = {}
    /\ compact = {}
    /\ IdleClassifier
    /\ IdleSections
    /\ IdleBatch
    /\ IdlePipeline
    /\ IdleCrawler

ParseHtml ==
    /\ pc = "ready"
    /\ tree' = parse_html(doc)
    /\ pc' = "parsed"
    /\ UNCHANGED <<doc, verbose, compact>>
    /\ UNCHANGED <<classifierVars, sectionVars, batchVars, pipelineVars, crawlerVars>>

\* to_dict(for_llm=False) on the returned tree, any number of times.
ToDictVerbose ==
    /\ pc = "parsed"
    /\ verbose' = verbose \cup {to_dict(tree, FALSE)}
    /\ tree' = after_to_dict(tree, FALSE)
    /\ UNCHANGED <<doc, pc, compact>>
    /\ UNCHANGED <<classifierVars, sectionVars, batchVars, pipelineVars, crawlerVars>>

\* to_dict(for_llm=True) on the returned tree, any number of times.
ToDictCompact ==
    /\ pc = "parsed"
    /\ compact' = compact \cup {to_dict(tree, TRUE)}
    /\ tree' = after_to_dict(tree, TRUE)
    /\ UNCHANGED <<doc, pc, verbose>>
    /\ UNCHANGED <<classifierVars, sectionVars, batchVars, pipelineVars, crawlerVars>>

Next ==
    \/ ParseHtml
    \/ ToDictVerbose
    \/ ToDictCompact

Spec ==
    Init /\ [][Next]_vars

\* The text classifier on one text run.
InitText ==
    /\ text \in SampleTexts
    /\ result = NoResult
    /\ sub = NoResult
    /\ IdleBuilder
    /\ IdleSections
    /\ IdleBatch
    /\ IdlePipeline
    /\ IdleCrawler

ClassifyText ==
    /\ result = NoResult
    /\ result' = _classify_text(text)
    /\ UNCHANGED <<text, sub>>
    /\ UNCHANGED <<builderVars, sectionVars, batchVars, pipelineVars, crawlerVars>>

IsSubheader ==
    /\ sub = NoResult
    /\ sub' = _is_subheader(text)
    /\ UNCHANGED <<text, result>>
    /\ UNCHANGED <<builderVars, sectionVars, batchVars, pipelineVars, crawlerVars>>

NextText ==
    \/ ClassifyText
    \/ IsSubheader

SpecText ==
    InitText /\ [][NextText]_vars

\* The section pass, run again and again over one list.
InitSection ==
    /\ elements \in SeqsUpTo(SampleElements, MaxElems)
    /\ afterFirst = <<>>
    /\ runs = 0
    /\ IdleBuilder
    /\ IdleClassifier
    /\ IdleBatch
    /\ IdlePipeline
    /\ IdleCrawler

RunSectionManager ==
    /\ runs < MaxRuns
    /\ elements' = SectionManager_process(elements)
    /\ afterFirst' = IF runs = 0 THEN elements' ELSE afterFirst
    /\ runs' = runs + 1
    /\ UNCHANGED <<builderVars, classifierVars, batchVars, pipelineVars, crawlerVars>>

NextSection ==
    RunSectionManager

SpecSection ==
    InitSection /\ [][NextSection]_vars

(***************************************************************************)
(* parse_html on deeply nested input.  _process_element calls itself once  *)
(* per level of tag nesting and tests no depth anywhere, so the only limit *)
(* is the interpreter's limit on nested calls (sys.getrecursionlimit(),    *)
(* 1000 by default, scaled down here); exceeding it raises RecursionError. *)
(***************************************************************************)
RecursionLimit == 4

MaxNest == 4

SetMaxOr0(S) ==
    IF S = {} THEN 0 ELSE SetMax(S)

\* The deepest nesting of calls below and including _process_element(element):
\* itself, plus _process_table for a table, or the deepest call of the loop.
RECURSIVE call_depth(_)
call_depth(element) ==
    IF element.name \in {N_script, N_style} THEN 1
    ELSE IF element.name = N_table THEN 2
    ELSE 1 + SetMaxOr0({call_depth(element.children[i]) :
                          i \in {j \in 1..Len(element.children) :
                                   IsTag(element.children[j])}})

\* parse_html is one call, and _process_element(soup, root) runs below it.
parse_html_depth(soup) ==
    1 + call_depth(soup)

DeepDocs ==
    {WithIds(Root(Chain(tags, kids)), <<1>>) :
        tags \in SeqsUpTo({N_div, N_table}, MaxNest),
        kids \in {<<>>} \cup {<<TextNode(t)>> : t \in LeafTexts}}

InitDeep ==
    /\ doc \in DeepDocs
    /\ tree = NoTree
    /\ pc = "ready"
    /\ verbose = {}
    /\ compact = {}
    /\ IdleClassifier
    /\ IdleSections
    /\ IdleBatch
    /\ IdlePipeline
    /\ IdleCrawler

\* The nesting fits the interpreter's stack: parse_html returns the tree.
ParseHtmlReturns ==
    /\ pc = "ready"
    /\ parse_html_depth(doc) <= RecursionLimit
    /\ tree' = parse_html(doc)
    /\ pc' = "parsed"
    /\ UNCHANGED <<doc, verbose, compact>>
    /\ UNCHANGED <<classifierVars, sectionVars, batchVars, pipelineVars, crawlerVars>>

\* The nesting does not fit: the interpreter raises RecursionError out of
\* the innermost call, nothing in the parser catches it and nothing is
\* returned.
ParseHtmlRecursionError ==
    /\ pc = "ready"
    /\ parse_html_depth(doc) > RecursionLimit
    /\ pc' = "RecursionError"
    /\ UNCHANGED <<doc, tree, verbose, compact>>
    /\ UNCHANGED <<classifierVars, sectionVars, batchVars, pipelineVars, crawlerVars>>

NextDeep ==
    \/ ParseHtmlReturns
    \/ ParseHtmlRecursionError

SpecDeep ==
    InitDeep /\ [][NextDeep]_vars

(***************************************************************************)
(* The batch drivers: one parser object for every file of the directory.   *)
(* A step is one turn of the driver's loop: parse_file on the next file,   *)
(* then to_dict on what it returned, written to the file's output.         *)
(***************************************************************************)
MaxFiles == 2

D_process_documents == "process_documents"

D_old_process_documents == "earlier process_documents"

D_main == "main"

Drivers ==
    {D_process_documents, D_old_process_documents, D_main}

BatchDocs ==
    {Root(<<n>>) : n \in SimpleNodes} \cup {Root(<<>>), SpecExampleDoc}

\* The parsed files in listing order; the nodes of the k-th are told from
\* those of the others by the k their identities begin with.
FileLists ==
    {[k \in 1..Len(ds) |-> WithIds(ds[k], <<k>>)] :
        ds \in SeqsUpTo(BatchDocs, MaxFiles) \ {<<>>}}

\* parser = EnhancedSECParser() / SECDocumentParser(): __init__ creates
\* self.root.
new_parser(d) ==
    IF d = D_process_documents THEN <<SemanticElement("DOCUMENT", <<>>, 0, 100)>>
    ELSE IF d = D_old_process_documents THEN <<old_init_root(C_EnhancedSECParser)>>
    ELSE <<old_init_root(C_SECDocumentParser)>>

InitBatch ==
    /\ driver \in Drivers
    /\ files \in FileLists
    /\ heap = new_parser(driver)
    /\ rets = <<>>
    /\ snaps = <<>>
    /\ written = <<>>
    /\ IdleBuilder
    /\ IdleClassifier
    /\ IdleSections
    /\ IdlePipeline
    /\ IdleCrawler

\* process_documents with the current EnhancedSECParser: both outputs.
ProcessDocuments ==
    /\ driver = D_process_documents
    /\ Len(rets) < Len(files)
    /\ LET call == parse_file(heap, files[Len(rets) + 1])
           semantic_tree == call.objs[call.ret]
       IN  /\ heap' = call.objs
           /\ rets' = Append(rets, call.ret)
           /\ snaps' = Append(snaps, semantic_tree)
           /\ written' = Append(written,
                  [human_output |-> to_dict(semantic_tree, FALSE),
                   llm_output |-> to_dict(semantic_tree, TRUE)])
    /\ UNCHANGED <<driver, files>>
    /\ UNCHANGED <<builderVars, classifierVars, sectionVars, pipelineVars,
                 crawlerVars>>

\* process_documents with the first EnhancedSECParser.
OldProcessDocuments ==
    /\ driver = D_old_process_documents
    /\ Len(rets) < Len(files)
    /\ LET call == old_parse_file(C_EnhancedSECParser, heap, files[Len(rets) + 1])
           semantic_tree == call.objs[call.ret]
       IN  /\ heap' = call.objs
           /\ rets' = Append(rets, call.ret)
           /\ snaps' = Append(snaps, semantic_tree)
           /\ written' = Append(written,
                                old_to_dict(C_EnhancedSECParser, semantic_tree))
    /\ UNCHANGED <<driver, files>>
    /\ UNCHANGED <<builderVars, classifierVars, sectionVars, pipelineVars,
                 crawlerVars>>

\* main with SECDocumentParser.
Main ==
    /\ driver = D_main
    /\ Len(rets) < Len(files)
    /\ LET call == old_parse_file(C_SECDocumentParser, heap, files[Len(rets) + 1])
           semantic_tree == call.objs[call.ret]
       IN  /\ heap' = call.objs
           /\ rets' = Append(rets, call.ret)
           /\ snaps' = Append(snaps, semantic_tree)
           /\ written' = Append(written,
                                old_to_dict(C_SECDocumentParser, semantic_tree))
    /\ UNCHANGED <<driver, files>>
    /\ UNCHANGED <<builderVars, classifierVars, sectionVars, pipelineVars,
                 crawlerVars>>

NextBatch ==
    \/ ProcessDocuments
    \/ OldProcessDocuments
    \/ Main

SpecBatch ==
    InitBatch /\ [][NextBatch]_vars

(***************************************************************************)
(* SECParser.parse: the tags of the soup become TextElements, then the     *)
(* passes of self._steps run over the list in order.  An element is a      *)
(* record of its class name, the HtmlTag it wraps (_html_tag), its section *)
(* and, for a TitleElement, its level; text is the element's text          *)
(* property, _html_tag.text.                                               *)
(***************************************************************************)
\* HtmlTag.text: tag.get_text(strip=True)
HtmlTag_text(html_tag) ==
    get_text(html_tag)

\* AbstractSemanticElement.__init__ under the class name cls.
AbstractSemanticElement(cls, html_tag) ==
    [cls |-> cls, _html_tag |-> html_tag, text |-> HtmlTag_text(html_tag),
     section |-> NoneSection]

TextElement(html_tag) ==
    AbstractSemanticElement("TextElement", html_tag)

TableElement(html_tag) ==
    AbstractSemanticElement("TableElement", html_tag)

\* TitleElement.__init__: the base fields and the level.
TitleElement(html_tag, level) ==
    [cls |-> "TitleElement", _html_tag |-> html_tag,
     text |-> HtmlTag_text(html_tag), section |-> NoneSection,
     level |-> level]

\* int() of one character: defined for a digit only.
int(c) ==
    CHOOSE k \in 0..9 : DigitChars[k + 1] = c

\* The element list parse builds: one TextElement per p, table, h1, h2, h3
\* or div of the soup, in document order, those without text skipped.
SECParser_elements(soup) ==
    LET tags == find_all(soup, {N_p, N_table, N_h("1"), N_h("2"), N_h("3"), N_div})
        kept == SelectSeq(tags, LAMBDA tag : get_text(tag) # <<>>)
    IN  [i \in 1..Len(kept) |-> TextElement(kept[i])]

\* TableClassifier.process: a new TableElement in the place of every
\* element that wraps a table tag.
TableClassifier_process(elems) ==
    [i \in 1..Len(elems) |->
        IF elems[i]._html_tag.name = N_table
        THEN TableElement(elems[i]._html_tag)
        ELSE elems[i]]

\* TitleClassifier.process: a new TitleElement in the place of every
\* element whose tag name starts with h, its level the name's second
\* character.
TitleClassifier_process(elems) ==
    [i \in 1..Len(elems) |->
        IF startswith(elems[i]._html_tag.name, <<"h">>)
        THEN TitleElement(elems[i]._html_tag,
                          IF Len(elems[i]._html_tag.name) > 1
                          THEN int(elems[i]._html_tag.name[2])
                          ELSE 1)
        ELSE elems[i]]

\* The pipeline as it would be with SectionManager put first.
_get_default_steps_sections_first ==
    <<"SectionManager", "TableClassifier", "TitleClassifier">>

_get_default_steps ==
    <<"TableClassifier", "TitleClassifier", "SectionManager">>

PipelineNodes ==
    {Tag(N_h("1"), <<TextNode(<<"A">>)>>),
     Tag(N_h("2"), <<TextNode(<<" ", "B">>)>>),
     Tag(N_h("4"), <<TextNode(<<"D">>)>>),
     Tag(N_p, <<TextNode(<<"x", "y">>)>>),
     Tag(N_p, <<TextNode(<<" ">>)>>),
     Tag(N_span, <<TextNode(<<"s">>)>>),
     Tag(N_div, <<Tag(N_h("3"), <<TextNode(<<"C">>)>>)>>),
     Table1x1}

PipelineDocs ==
    {WithIds(Root(kids), <<1>>) : kids \in SeqsUpTo(PipelineNodes, MaxElems)}

InitPipeline ==
    /\ \E soup \in PipelineDocs : elements = SECParser_elements(soup)
    /\ step = 0
    /\ before = <<>>
    /\ afterFirst = <<>>
    /\ runs = 0
    /\ IdleBuilder
    /\ IdleClassifier
    /\ IdleBatch
    /\ IdleCrawler

\* One turn of `for step in self._steps`, the pass being TableClassifier.
RunTableClassifier ==
    /\ step < Len(_get_default_steps)
    /\ _get_default_steps[step + 1] = "TableClassifier"
    /\ elements' = TableClassifier_process(elements)
    /\ before' = elements
    /\ step' = step + 1
    /\ UNCHANGED <<afterFirst, runs>>
    /\ UNCHANGED <<builderVars, classifierVars, batchVars, crawlerVars>>

RunTitleClassifier ==
    /\ step < Len(_get_default_steps)
    /\ _get_default_steps[step + 1] = "TitleClassifier"
    /\ elements' = TitleClassifier_process(elements)
    /\ before' = elements
    /\ step' = step + 1
    /\ UNCHANGED <<afterFirst, runs>>
    /\ UNCHANGED <<builderVars, classifierVars, batchVars, crawlerVars>>

RunSectionManagerPass ==
    /\ step < Len(_get_default_steps)
    /\ _get_default_steps[step + 1] = "SectionManager"
    /\ elements' = SectionManager_process(elements)
    /\ before' = elements
    /\ step' = step + 1
    /\ UNCHANGED <<afterFirst, runs>>
    /\ UNCHANGED <<builderVars, classifierVars, batchVars, crawlerVars>>

NextPipeline ==
    \/ RunTableClassifier
    \/ RunTitleClassifier
    \/ RunSectionManagerPass

SpecPipeline ==
    InitPipeline /\ [][NextPipeline]_vars

(***************************************************************************)
(* SECCrawler._make_request and download_filing.  A step is one attempt of *)
(* the retry loop with everything it does before the next attempt or the   *)
(* return.  Sleeps are in tenths of a second.                              *)
(***************************************************************************)
RATE_LIMIT_DELAY == 1

MAX_RETRIES == 3

MaxRetries == 3

RECURSIVE Pow2(_)
Pow2(n) ==
    IF n = 0 THEN 1 ELSE 2 * Pow2(n - 1)

\* What session.get(url) can do: raise (a connection error, a timeout) or
\* give a response.
GetOutcomes ==
    {[exc |-> "ConnectionError", status_code |-> 0, text |-> <<>>],
     [exc |-> "Timeout", status_code |-> 0, text |-> <<>>]}
    \cup {[exc |-> "", status_code |-> s, text |-> t] :
            s \in {200, 204, 404, 503}, t \in {<<>>, <<"x">>}}

\* response.raise_for_status() raises HTTPError for a 4xx or 5xx status.
raise_for_status(response) ==
    response.status_code >= 400 /\ response.status_code < 600

\* The try block ends in the except branch: get raised, or raise_for_status
\* did.
RequestException(outcome) ==
    outcome.exc # "" \/ raise_for_status(outcome)

NoneValue ==
    [kind |-> "None"]

Response(outcome) ==
    [kind |-> "Response", status_code |-> outcome.status_code,
     text |-> outcome.text]

\* The truth value of what _make_request returned: None is false, a
\* Response is true when its status is no error status.
Response_bool(response) ==
    response.kind = "Response" /\ ~raise_for_status(response)

\* What the call did, in order: a GET of attempt k with what came of it, or
\* a sleep of so many tenths of a second.
GetEvent(k, outcome) ==
    [kind |-> "get", attempt |-> k, failed |-> RequestException(outcome),
     outcome |-> outcome, tenths |-> 0]

SleepEvent(k, tenths) ==
    [kind |-> "sleep", attempt |-> k, failed |-> FALSE,
     outcome |-> [exc |-> "", status_code |-> 0, text |-> <<>>],
     tenths |-> tenths]

\* The except branch as it would be if it slept before testing whether an
\* attempt is left.
except_branch_sleeps_first(k, n) ==
    [sleep |-> <<SleepEvent(k, 10 * Pow2(k))>>, return_none |-> ~(k < n - 1)]

\* The except branch of attempt k of n: back off if an attempt is left,
\* return None otherwise.
except_branch(k, n) ==
    IF k < n - 1
    THEN [sleep |-> <<SleepEvent(k, 10 * Pow2(k))>>, return_none |-> FALSE]
    ELSE [sleep |-> <<>>, return_none |-> TRUE]

\* download_filing's return expression.
download_filing_result(response) ==
    IF Response_bool(response)
    THEN [kind |-> "str", text |-> response.text]
    ELSE NoneValue

InitCrawler ==
    /\ \/ caller = "_make_request" /\ retries \in 0..MaxRetries
       \/ caller = "download_filing" /\ retries = MAX_RETRIES
    /\ attempt = 0
    /\ events = <<>>
    /\ returned = Pending
    /\ downloaded = Pending
    /\ IdleBuilder
    /\ IdleClassifier
    /\ IdleSections
    /\ IdleBatch
    /\ IdlePipeline

\* An attempt succeeds: the rate-limit sleep after a 200, then the return.
AttemptSucceeds ==
    /\ returned = Pending
    /\ attempt < retries
    /\ \E outcome \in GetOutcomes :
           /\ ~RequestException(outcome)
           /\ events' = events \o <<GetEvent(attempt, outcome)>>
                          \o (IF outcome.status_code = 200
                              THEN <<SleepEvent(attempt, RATE_LIMIT_DELAY)>>
                              ELSE <<>>)
           /\ returned' = Response(outcome)
    /\ UNCHANGED <<caller, retries, attempt, downloaded>>
    /\ UNCHANGED <<builderVars, classifierVars, sectionVars, batchVars, pipelineVars>>

\* An attempt fails and another is left: the backoff sleep, then the next
\* turn of the loop.
AttemptFailsAndBacksOff ==
    /\ returned = Pending
    /\ attempt < retries
    /\ ~except_branch(attempt, retries).return_none
    /\ \E outcome \in GetOutcomes :
           /\ RequestException(outcome)
           /\ events' = events \o <<GetEvent(attempt, outcome)>>
                          \o except_branch(attempt, retries).sleep
    /\ attempt' = attempt + 1
    /\ UNCHANGED <<caller, retries, returned, downloaded>>
    /\ UNCHANGED <<builderVars, classifierVars, sectionVars, batchVars, pipelineVars>>

\* The last attempt fails: None is returned.
AttemptFailsForGood ==
    /\ returned = Pending
    /\ attempt < retries
    /\ except_branch(attempt, retries).return_none
    /\ \E outcome \in GetOutcomes :
           /\ RequestException(outcome)
           /\ events' = events \o <<GetEvent(attempt, outcome)>>
                          \o except_branch(attempt, retries).sleep
    /\ returned' = NoneValue
    /\ UNCHANGED <<caller, retries, attempt, downloaded>>
    /\ UNCHANGED <<builderVars, classifierVars, sectionVars, batchVars, pipelineVars>>

\* range(retries) is used up without a return (retries is 0): the function
\* ends and returns None.
LoopEnds ==
    /\ returned = Pending
    /\ attempt >= retries
    /\ returned' = NoneValue
    /\ UNCHANGED <<caller, retries, attempt, events, downloaded>>
    /\ UNCHANGED <<builderVars, classifierVars, sectionVars, batchVars, pipelineVars>>

DownloadFilingReturns ==
    /\ caller = "download_filing"
    /\ returned # Pending
    /\ downloaded = Pending
    /\ downloaded' = download_filing_result(returned)
    /\ UNCHANGED <<caller, retries, attempt, events, returned>>
    /\ UNCHANGED <<builderVars, classifierVars, sectionVars, batchVars, pipelineVars>>

NextCrawler ==
    \/ AttemptSucceeds
    \/ AttemptFailsAndBacksOff
    \/ AttemptFailsForGood
    \/ LoopEnds
    \/ DownloadFilingReturns

SpecCrawler ==
    InitCrawler /\ [][NextCrawler]_vars

(***************************************************************************)
(* Vocabulary of the properties.                                           *)
(***************************************************************************)
\* Every semantic element of a tree, the root included.
RECURSIVE Subtrees(_)
Subtrees(n) ==
    {n} \cup UNION {Subtrees(n.children[i]) : i \in 1..Len(n.children)}

\* Every node of an input tree, the root included.
RECURSIVE InputNodes(_)
InputNodes(n) ==
    {n} \cup UNION {InputNodes(n.children[i]) : i \in 1..Len(n.children)}

IsPrefix(p, q) ==
    /\ Len(p) <= Len(q)
    /\ SubSeq(q, 1, Len(p)) = p

\* The identities of the script and style tags of a document.
ScriptIds(d) ==
    {n.id : n \in {m \in InputNodes(d) : m.name \in {N_script, N_style}}}

\* The node is a script or style tag, or lies below one.
InScript(d, id) ==
    \E s \in ScriptIds(d) : IsPrefix(s, id)

ChildTypes(n) ==
    {n.children[i].element_type : i \in 1..Len(n.children)}

MatchesSubheaderPattern(s) ==
    \E k \in 1..Len(subheader_patterns) : re_match(subheader_patterns[k], s)

(***************************************************************************)
(* C1.  In every tree built by parse_html every TABLE node's children are  *)
(* all TABLE_ROW nodes and every TABLE_ROW node's children are all         *)
(* TABLE_CELL nodes.  The code breaks it: the TABLE element made for a     *)
(* table tag by the children loop gets a second TABLE element (and the     *)
(* text leaf of table.string) as children.                                 *)
(***************************************************************************)
C1_TableChildrenAreRows ==
    pc = "parsed" =>
        \A n \in Subtrees(tree) :
            /\ n.element_type = "TABLE" => ChildTypes(n) \subseteq {"TABLE_ROW"}
            /\ n.element_type = "TABLE_ROW" => ChildTypes(n) \subseteq {"TABLE_CELL"}

(***************************************************************************)
(* C2.  The document of a heading T, a paragraph P and a table of two rows *)
(* with two cells each yields a DOCUMENT root at level 0 whose level-1     *)
(* children are a SECTION_TITLE with text T (0.95), a PARAGRAPH with text  *)
(* P (0.90) and one TABLE whose two TABLE_ROW children are at level 2,     *)
(* each with two TABLE_CELL leaves at level 3 holding the cell texts.      *)
(***************************************************************************)
IsCellLeaf(n, txt) ==
    /\ n.element_type = "TABLE_CELL"
    /\ n.text = txt
    /\ n.level = 3
    /\ n.children = <<>>

IsRowOf(n, t1, t2) ==
    /\ n.element_type = "TABLE_ROW"
    /\ n.level = 2
    /\ Len(n.children) = 2
    /\ IsCellLeaf(n.children[1], t1)
    /\ IsCellLeaf(n.children[2], t2)

C2_SpecExampleTree ==
    (pc = "parsed" /\ doc = WithIds(SpecExampleDoc, <<1>>)) =>
        /\ tree.element_type = "DOCUMENT"
        /\ tree.level = 0
        /\ Len(tree.children) = 3
        /\ \A i \in 1..3 : tree.children[i].level = 1
        /\ tree.children[1].element_type = "SECTION_TITLE"
        /\ tree.children[1].text = T_Business
        /\ tree.children[1].confidence = 95
        /\ tree.children[2].element_type = "PARAGRAPH"
        /\ tree.children[2].text = T_WeOperate
        /\ tree.children[2].confidence = 90
        /\ tree.children[3].element_type = "TABLE"
        /\ Len(tree.children[3].children) = 2
        /\ IsRowOf(tree.children[3].children[1], T_Year, T_Revenue)
        /\ IsRowOf(tree.children[3].children[2], T_2023, T_100)

(***************************************************************************)
(* C3.  A text that does not start with "Item" and matches one of the five *)
(* structural subheader patterns is classified (SECTION_TITLE, 0.95).      *)
(***************************************************************************)
C3_PatternGives95 ==
    (/\ result # NoResult
     /\ ~startswith(strip(text), S_Item)
     /\ MatchesSubheaderPattern(strip(text)))
        => result = PyTuple("SECTION_TITLE", 95)

(***************************************************************************)
(* C4.  A text shorter than 50 characters that is fully uppercase, does    *)
(* not start with "Item" and matches no structural subheader pattern is    *)
(* classified (SECTION_TITLE, 0.85).                                       *)
(***************************************************************************)
C4_ShortUpperGives85 ==
    (/\ result # NoResult
     /\ Len(strip(text)) < 50
     /\ isupper(strip(text))
     /\ ~startswith(strip(text), S_Item)
     /\ ~MatchesSubheaderPattern(strip(text)))
        => result = PyTuple("SECTION_TITLE", 85)

(***************************************************************************)
(* C5.  _classify_text returns the result of the first matching rule of    *)
(* the list: Item -> SECTION_TITLE 0.95; structural pattern ->             *)
(* SECTION_TITLE 0.95; supplementary marker -> SUPPLEMENTARY_TEXT 0.90; at *)
(* most 10 words and an uppercase first letter -> SECTION_TITLE 0.90;      *)
(* under 50 characters and fully uppercase -> SECTION_TITLE 0.85;          *)
(* otherwise TEXT 0.80.                                                    *)
(***************************************************************************)
OrderedRules(s) ==
    IF startswith(s, S_Item) THEN PyTuple("SECTION_TITLE", 95)
    ELSE IF MatchesSubheaderPattern(s) THEN PyTuple("SECTION_TITLE", 95)
    ELSE IF startswith_any(s, SupplementaryMarkers)
         THEN PyTuple("SUPPLEMENTARY_TEXT", 90)
    ELSE IF split_len(s) <= 10 /\ s # <<>> /\ s[1] \in Upper
         THEN PyTuple("SECTION_TITLE", 90)
    ELSE IF Len(s) < 50 /\ isupper(s) THEN PyTuple("SECTION_TITLE", 85)
    ELSE PyTuple("TEXT", 80)

C5_FirstMatchingRule ==
    result # NoResult => result = OrderedRules(strip(text))

(***************************************************************************)
(* C6.  No script or style node reaches the classifier or the builder: the *)
(* built tree holds no semantic element created for a script or style tag  *)
(* nor for anything below one, and _classify_element is never called on a  *)
(* script or style node (each call is followed by one "element" node).     *)
(***************************************************************************)
C6_NoScriptOrStyle ==
    pc = "parsed" =>
        \A n \in Subtrees(tree) : n.via # "root" => ~InScript(doc, n.origin)

(***************************************************************************)
(* C7.  In every tree returned by parse_html the root is a DOCUMENT at     *)
(* level 0 and every node's level is its parent's level plus one.          *)
(***************************************************************************)
C7_Levels ==
    pc = "parsed" =>
        /\ tree.level = 0
        /\ tree.element_type = "DOCUMENT"
        /\ \A n \in Subtrees(tree) :
               \A i \in 1..Len(n.children) : n.children[i].level = n.level + 1

\* A parsed table with a cell four levels down, next to text leaves.
C7_Witness ==
    /\ pc = "parsed"
    /\ \E n \in Subtrees(tree) : n.via = "cell" /\ n.level = 4
    /\ \E n \in Subtrees(tree) : n.via = "text" /\ n.level = 2
    /\ \E n \in Subtrees(tree) : n.via = "row" /\ n.level = 3

(***************************************************************************)
(* C8.  After SectionManager.process every element's section is the text   *)
(* of the nearest TitleElement at or before it in the list, and None       *)
(* exactly when there is no TitleElement at or before it.                  *)
(***************************************************************************)
TitlesUpTo(elems, i) ==
    {j \in 1..i : elems[j].cls = "TitleElement"}

C8_NearestTitle ==
    runs >= 1 =>
        \A i \in 1..Len(elements) :
            LET titles == TitlesUpTo(elements, i)
            IN  /\ titles = {} <=> elements[i].section = NoneSection
                /\ titles # {} =>
                       elements[i].section = Some(elements[SetMax(titles)].text)

\* One run over a list that has an element before the first title, a title
\* after another title, and an element after the titles.
C8_Witness ==
    /\ runs = 1
    /\ Len(elements) = 3
    /\ elements[1].cls = "TextElement"
    /\ elements[2].cls = "TitleElement"
    /\ elements[3].cls = "TableElement"
    /\ elements[1].section = NoneSection
    /\ elements[3].section = Some(elements[2].text)

(***************************************************************************)
(* C9.  Running SectionManager.process twice in succession leaves every    *)
(* element with the section it had after the first run.                    *)
(***************************************************************************)
C9_Idempotent ==
    runs >= 2 =>
        /\ Len(elements) = Len(afterFirst)
        /\ \A i \in 1..Len(elements) :
               elements[i].section = afterFirst[i].section

\* A second run over a list with a title in the middle.
C9_Witness ==
    /\ runs = 2
    /\ Len(elements) = 3
    /\ elements[2].cls = "TitleElement"
    /\ elements[1].cls # "TitleElement"
    /\ elements[3].cls # "TitleElement"

(***************************************************************************)
(* C10.  Every node of every built tree has a confidence in [0.0, 1.0]     *)
(* (0..100 hundredths), and so has every pair the classifiers return for   *)
(* the nodes and strings of the document.                                  *)
(***************************************************************************)
InUnit(c) ==
    0 <= c /\ c <= 100

C10_ConfidenceRange ==
    /\ \A n \in Subtrees(tree) : InUnit(n.confidence)
    /\ pc = "parsed" =>
           \A m \in InputNodes(doc) :
               IF IsTag(m)
               THEN InUnit(_classify_element(m).conf)
               ELSE /\ InUnit(_classify_text(m.string).conf)
                    /\ _is_subheader(m.string).kind = "tuple"
                           => InUnit(_is_subheader(m.string).conf)

\* A parsed tree holding a node of each confidence the builder gives.
C10_Witness ==
    /\ pc = "parsed"
    /\ {80, 90, 95, 100} \subseteq {n.confidence : n \in Subtrees(tree)}
    /\ \E n \in Subtrees(tree) : n.via = "cell"

(***************************************************************************)
(* C14.  _classify_element returns the first matching rule's result: a     *)
(* span whose text starts with "Item" and whose style is bold-weight is    *)
(* (SECTION_TITLE, 0.95); a span whose text starts with a lettered marker  *)
(* (a)-(d) and whose style is underline is (SECTION_TITLE, 0.90);          *)
(* otherwise by tag: h1-h6 (SECTION_TITLE, 0.95), p (PARAGRAPH, 0.90),     *)
(* table (TABLE, 0.95), ul/ol (LIST, 0.90), li (LIST_ITEM, 0.90), any      *)
(* other tag (CONTAINER, 0.80).  Every element the children loop attaches  *)
(* carries the pair the classifier returned for its tag.                   *)
(***************************************************************************)
NodeAt(d, id) ==
    CHOOSE m \in InputNodes(d) : m.id = id

IsBoldItemSpan(m) ==
    /\ m.name = N_span
    /\ startswith(get_text(m), S_Item)
    /\ contains(m.style, St_bold)

IsUnderlinedMarkerSpan(m) ==
    /\ m.name = N_span
    /\ \E l \in {"a", "b", "c", "d"} : startswith(get_text(m), <<"(", l, ")">>)
    /\ contains(m.style, St_underline)

C14_Rules(m) ==
    CASE IsBoldItemSpan(m) -> <<"SECTION_TITLE", 95>>
      [] ~IsBoldItemSpan(m) /\ IsUnderlinedMarkerSpan(m) -> <<"SECTION_TITLE", 90>>
      [] OTHER ->
           CASE m.name \in HeadingNames -> <<"SECTION_TITLE", 95>>
             [] m.name = N_p -> <<"PARAGRAPH", 90>>
             [] m.name = N_table -> <<"TABLE", 95>>
             [] m.name \in {N_ul, N_ol} -> <<"LIST", 90>>
             [] m.name = N_li -> <<"LIST_ITEM", 90>>
             [] OTHER -> <<"CONTAINER", 80>>

C14_ElementRules ==
    pc = "parsed" =>
        \A n \in Subtrees(tree) :
            n.via = "element" =>
                <<n.element_type, n.confidence>> = C14_Rules(NodeAt(doc, n.origin))

\* A parsed document with an underlined "(b) X" span, classified by the
\* second override.
C14_Witness ==
    /\ pc = "parsed"
    /\ \E n \in Subtrees(tree) :
           /\ n.via = "element"
           /\ n.text = N_span
           /\ n.element_type = "SECTION_TITLE"
           /\ n.confidence = 90
           /\ IsUnderlinedMarkerSpan(NodeAt(doc, n.origin))

(***************************************************************************)
(* C15.  Classification is total: for every tag name, known or unknown,    *)
(* _classify_element, and for every text run including the empty string    *)
(* _classify_text, returns a pair of one of the eleven ElementType values  *)
(* and a confidence.                                                       *)
(***************************************************************************)
IsPair(v) ==
    /\ v.kind = "tuple"
    /\ v.type \in ElementType
    /\ v.conf \in 0..100

UnknownNames ==
    {<<"b">>, <<"f", "o", "o">>, N_document}

C15_Total ==
    result # NoResult =>
        /\ IsPair(result)
        /\ \A n \in AllNames \cup UnknownNames :
               IsPair(_classify_element(Tag(n, <<TextNode(text)>>)))
        /\ \A st \in {St_bold, St_underline} :
               IsPair(_classify_element(Styled(N_span, st, <<TextNode(text)>>)))

\* The empty string has been classified.
C15_Witness ==
    /\ text = <<>>
    /\ result = PyTuple("TEXT", 80)

(***************************************************************************)
(* C13.  During tree building a child without a tag name gets no semantic  *)
(* element of its own and does not stop the processing of its later        *)
(* siblings; a node whose text is blank after trimming produces no text    *)
(* leaf while every one of its tagged children is still visited.  (A       *)
(* string reaches the tree only as the text leaf of a tag whose .string it *)
(* is; a visit of a tag is the _process_element call that follows the      *)
(* attachment of its "element" node.)                                      *)
(***************************************************************************)
HasElement(id) ==
    \E n \in Subtrees(tree) : n.via = "element" /\ n.origin = id

\* The tags _process_element goes through the children of: the soup and
\* every visited tag that is no script, style or table.
TraversedTags ==
    {p \in InputNodes(doc) :
        /\ IsTag(p)
        /\ p.name \notin {N_script, N_style, N_table}
        /\ (p.id = doc.id \/ HasElement(p.id))}

HasBlankString(p) ==
    /\ dot_string(p) # <<>>
    /\ strip(dot_string(p)[1].string) = <<>>

C13_SkipsNamelessAndBlank ==
    pc = "parsed" =>
        /\ \A n \in Subtrees(tree) :
               n.via \in {"element", "table", "row", "cell"}
                   => IsTag(NodeAt(doc, n.origin))
        /\ \A p \in TraversedTags :
               /\ \A i \in 1..Len(p.children) :
                      IsTag(p.children[i]) => HasElement(p.children[i].id)
               /\ HasBlankString(p) =>
                      ~\E n \in Subtrees(tree) :
                          n.via = "text" /\ n.origin = dot_string(p)[1].id

\* A string child followed by a tag that holds a blank text above a tagged
\* child: the later sibling and the child both got their elements.
C13_Witness ==
    /\ pc = "parsed"
    /\ \E p \in TraversedTags :
           /\ Len(p.children) = 2
           /\ ~IsTag(p.children[1])
           /\ IsTag(p.children[2])
           /\ HasBlankString(p.children[2])
           /\ HasElement(p.children[2].id)
           /\ HasElement(p.children[2].children[1].id)

(***************************************************************************)
(* C20.  For every non-table node that carries non-empty direct text, also *)
(* next to child elements, the builder appends exactly one classified text *)
(* leaf holding that trimmed text under the node's semantic element, and   *)
(* the leaf precedes every element created for the node's children.        *)
(***************************************************************************)
\* The characters of the strings that are children of the tag itself.
DirectText(p) ==
    strip(Flatten([i \in 1..Len(p.children) |->
        IF IsTag(p.children[i]) THEN <<>> ELSE p.children[i].string]))

\* The semantic element the builder fills for a traversed tag.
ElementOf(p) ==
    IF p.id = doc.id THEN tree
    ELSE CHOOSE n \in Subtrees(tree) : n.via = "element" /\ n.origin = p.id

TextLeafIndexes(e) ==
    {i \in 1..Len(e.children) : e.children[i].via = "text"}

C20_DirectTextLeafFirst ==
    pc = "parsed" =>
        \A p \in TraversedTags :
            DirectText(p) # <<>> =>
                /\ TextLeafIndexes(ElementOf(p)) = {1}
                /\ ElementOf(p).children[1].text = DirectText(p)
                /\ ElementOf(p).children[1].children = <<>>

(***************************************************************************)
(* C16.  Reading back the verbose output of to_dict(for_llm=False) gives,  *)
(* for every node at the same position, the same (type name, content,      *)
(* level, confidence, number of children) as the in-memory node, a missing *)
(* "children" key being read as zero children.                             *)
(***************************************************************************)
ReadChildren(d) ==
    IF "children" \in DOMAIN d THEN d.children ELSE <<>>

RECURSIVE ReadsBackAs(_, _)
ReadsBackAs(d, n) ==
    /\ {"type", "content", "level", "confidence"} \subseteq DOMAIN d
    /\ d.type = n.element_type
    /\ d.content = n.text
    /\ d.level = n.level
    /\ d.confidence = n.confidence
    /\ Len(ReadChildren(d)) = Len(n.children)
    /\ \A i \in 1..Len(n.children) : ReadsBackAs(ReadChildren(d)[i], n.children[i])

C16_VerboseRoundTrip ==
    \A d \in verbose : ReadsBackAs(d, tree)

\* The verbose dict of a tree with leaves and with an element that has
\* exactly one child.
C16_Witness ==
    /\ verbose # {}
    /\ \E n \in Subtrees(tree) : Len(n.children) = 1
    /\ \E n \in Subtrees(tree) : Len(n.children) = 2
    /\ \E n \in Subtrees(tree) : n.via = "cell"

(***************************************************************************)
(* C17.  The compact output of to_dict(for_llm=True) has exactly the keys  *)
(* t (type name), c (text) and l (level), plus ch holding the children's   *)
(* compact outputs in order if and only if the node has at least one       *)
(* child; it never contains a confidence field, at any depth.              *)
(***************************************************************************)
RECURSIVE IsCompactOf(_, _)
IsCompactOf(d, n) ==
    /\ DOMAIN d = (IF n.children # <<>> THEN {"t", "c", "l", "ch"}
                                         ELSE {"t", "c", "l"})
    /\ d.t = n.element_type
    /\ d.c = n.text
    /\ d.l = n.level
    /\ n.children # <<>> =>
           /\ Len(d.ch) = Len(n.children)
           /\ \A i \in 1..Len(n.children) : IsCompactOf(d.ch[i], n.children[i])

C17_CompactShape ==
    \A d \in compact : IsCompactOf(d, tree)

\* The compact dict of a tree three levels deep with a childless root child.
C17_Witness ==
    /\ compact # {}
    /\ \E n \in Subtrees(tree) : n.level = 3
    /\ \E i \in 1..Len(tree.children) : tree.children[i].children = <<>>

C12_BoundedRecursion ==
    pc \in {"ready", "parsed", "too_deeply_nested"}

(***************************************************************************)
(* C11.  With the current EnhancedSECParser, parse_html called on one      *)
(* parser object for document A and then for document B returns for B a    *)
(* tree that holds only nodes built from B, under a root object of its     *)
(* own, and the tree returned for A is what it was when it was returned.   *)
(***************************************************************************)
\* Every node below the root of t was built from a node of the k-th file.
BuiltFrom(t, k) ==
    \A n \in Subtrees(t) : n.via # "root" => n.origin[1] = k

C11_FreshRootPerCall ==
    driver = D_process_documents =>
        \A k \in DOMAIN rets :
            /\ BuiltFrom(heap[rets[k]], k)
            /\ heap[rets[k]] = snaps[k]
            /\ \A j \in DOMAIN rets : j # k => rets[j] # rets[k]

\* Two documents parsed by the one parser, each giving nodes.
C11_Witness ==
    /\ driver = D_process_documents
    /\ Len(rets) = 2
    /\ snaps[1].children # <<>>
    /\ snaps[2].children # <<>>

(***************************************************************************)
(* C19.  In the batch drivers of the two earlier parsers, the tree         *)
(* serialized for each file contains only nodes built from that file: what *)
(* is written for the k-th file holds no node that came from a file        *)
(* processed before it.                                                    *)
(***************************************************************************)
\* snaps[k] is the tree to_dict was called on for the k-th file.
C19_BatchOutputsOwnNodes ==
    driver \in {D_old_process_documents, D_main} =>
        \A k \in DOMAIN written :
            BuiltFrom(snaps[k], k)

(***************************************************************************)
(* C21.  The subtree of the TABLE node of a table tag comes from table     *)
(* traversal only: in document order one TABLE_ROW (0.95) per row of the   *)
(* table, each holding one TABLE_CELL leaf (0.95, the trimmed text of the  *)
(* cell) per td or th of that row, as many as the row has, and no node     *)
(* for any other content of the table.                                     *)
(***************************************************************************)
\* The tags of the given names below a node, in document order, those of
\* tables nested in it left out.
RECURSIVE OwnTags(_, _)
OwnTags(node, names) ==
    Flatten([i \in 1..Len(node.children) |->
        (IF node.children[i].name \in names THEN <<node.children[i]>> ELSE <<>>)
        \o (IF node.children[i].name = N_table THEN <<>>
            ELSE OwnTags(node.children[i], names))])

\* Every character of text below a node, in document order.
RECURSIVE AllText(_)
AllText(node) ==
    IF ~IsTag(node) THEN node.string
    ELSE Flatten([i \in 1..Len(node.children) |-> AllText(node.children[i])])

IsCellOf(n, cell) ==
    /\ n.element_type = "TABLE_CELL"
    /\ n.confidence = 95
    /\ n.text = strip(AllText(cell))
    /\ n.children = <<>>
    /\ n.origin = cell.id

IsRowFor(n, row) ==
    LET cells == OwnTags(row, {N_td, N_th})
    IN  /\ n.element_type = "TABLE_ROW"
        /\ n.confidence = 95
        /\ n.origin = row.id
        /\ Len(n.children) = Len(cells)
        /\ \A c \in 1..Len(cells) : IsCellOf(n.children[c], cells[c])

C21_TableSubtree ==
    pc = "parsed" =>
        \A n \in Subtrees(tree) :
            (n.element_type = "TABLE" /\ n.via # "root") =>
                LET rows == OwnTags(NodeAt(doc, n.origin), {N_tr})
                IN  /\ Len(n.children) = Len(rows)
                    /\ \A r \in 1..Len(rows) : IsRowFor(n.children[r], rows[r])

(***************************************************************************)
(* C23.  Each text run of the input gives at most one text leaf of the     *)
(* tree, and a node's text leaf is taken from its own direct text: a text  *)
(* run inside a chain of only children is not also a text leaf of the      *)
(* enclosing elements.                                                     *)
(***************************************************************************)
\* How many elements of a tree were created at the given place of the
\* builder for the input node of the given identity.
RECURSIVE Occurrences(_, _, _)
Occurrences(n, via, id) ==
    LET RECURSIVE Below(_)
        Below(i) == IF i = 0 THEN 0
                    ELSE Occurrences(n.children[i], via, id) + Below(i - 1)
    IN  (IF n.via = via /\ n.origin = id THEN 1 ELSE 0) + Below(Len(n.children))

ParentId(id) ==
    SubSeq(id, 1, Len(id) - 1)

\* The input node an element was created for; the soup for the root.
SourceId(e) ==
    IF e.via = "root" THEN doc.id ELSE e.origin

C23_OneLeafPerTextRun ==
    pc = "parsed" =>
        /\ \A m \in InputNodes(doc) :
               ~IsTag(m) => Occurrences(tree, "text", m.id) <= 1
        /\ \A e \in Subtrees(tree) : \A i \in 1..Len(e.children) :
               e.children[i].via = "text" =>
                   ParentId(e.children[i].origin) = SourceId(e)

(***************************************************************************)
(* C24.  With a table nested in a cell of another, each row gives exactly  *)
(* one TABLE_ROW, under the TABLE node of the table it belongs to, and     *)
(* each cell exactly one TABLE_CELL, under the TABLE_ROW of its own row:   *)
(* no row or cell of the nested table is also a row or cell of the outer   *)
(* one.                                                                    *)
(***************************************************************************)
\* The identity of the nearest tag of the given names that encloses the
\* node of the given identity; the empty path if there is none.
NearestEnclosing(id, names) ==
    LET S == {k \in 1..(Len(id) - 1) :
                 NodeAt(doc, SubSeq(id, 1, k)).name \in names}
    IN  IF S = {} THEN <<>> ELSE SubSeq(id, 1, SetMax(S))

\* The tables table traversal runs on.
TraversedTables ==
    {NodeAt(doc, n.origin) : n \in {x \in Subtrees(tree) : x.via = "table"}}

C24_NestedTableRowsAndCells ==
    pc = "parsed" =>
        /\ \A e \in Subtrees(tree) : \A i \in 1..Len(e.children) :
               /\ e.children[i].via = "row" =>
                      e.origin = NearestEnclosing(e.children[i].origin, {N_table})
               /\ e.children[i].via = "cell" =>
                      e.origin = NearestEnclosing(e.children[i].origin, {N_tr})
        /\ \A t \in TraversedTables :
               /\ \A k \in 1..Len(find_all(t, {N_tr})) :
                      Occurrences(tree, "row", find_all(t, {N_tr})[k].id) = 1
               /\ \A k \in 1..Len(find_all(t, {N_td, N_th})) :
                      NearestEnclosing(find_all(t, {N_td, N_th})[k].id, {N_tr}) # <<>>
                          => Occurrences(tree, "cell",
                                         find_all(t, {N_td, N_th})[k].id) = 1

(***************************************************************************)
(* C22.  Each pass of SECParser's pipeline returns a list of the same      *)
(* length in which position i wraps the same HTML tag as before the pass;  *)
(* TableClassifier and TitleClassifier change only the element's type at a *)
(* position, SectionManager changes only the section, and SectionManager   *)
(* runs after both classifiers, so every h1-h3 element is a TitleElement   *)
(* when the sections are assigned.                                         *)
(***************************************************************************)
\* The pass that has just run.
LastPass ==
    _get_default_steps[step]

SameTags ==
    /\ Len(elements) = Len(before)
    /\ \A i \in 1..Len(before) :
           /\ elements[i]._html_tag = before[i]._html_tag
           /\ elements[i].text = before[i].text

IsH1toH3(e) ==
    e._html_tag.name \in {N_h("1"), N_h("2"), N_h("3")}

C22_PassesKeepOrder ==
    step >= 1 =>
        /\ SameTags
        /\ LastPass \in {"TableClassifier", "TitleClassifier"} =>
               \A i \in 1..Len(before) : elements[i].section = before[i].section
        /\ LastPass = "SectionManager" =>
               /\ \A i \in 1..Len(before) :
                      /\ elements[i].cls = before[i].cls
                      /\ [elements[i] EXCEPT !.section = NoneSection]
                             = [before[i] EXCEPT !.section = NoneSection]
               /\ \A i \in 1..Len(before) :
                      IsH1toH3(before[i]) => before[i].cls = "TitleElement"
               /\ \A j \in 1..Len(_get_default_steps) :
                      _get_default_steps[j] \in {"TableClassifier", "TitleClassifier"}
                          => j < step

\* The three passes have run over a list with a table, a title that is not
\* first, and an element in that title's section.
C22_Witness ==
    /\ step = 3
    /\ \E i \in 1..Len(elements) : elements[i].cls = "TableElement"
    /\ \E i \in 2..Len(elements) :
           /\ elements[i].cls = "TitleElement"
           /\ elements[i - 1].section # elements[i].section
    /\ \E i \in 1..Len(elements) :
           elements[i].cls = "TextElement" /\ elements[i].section # NoneSection

(***************************************************************************)
(* C25.  _make_request(url, retries) with retries >= 1 makes at most       *)
(* `retries` GET attempts, returns the response of the first attempt that  *)
(* succeeds and makes no attempt after it, and returns None exactly when   *)
(* all `retries` attempts failed; it sleeps 2^attempt seconds only between *)
(* a failed attempt and the next one, never after the last failed attempt; *)
(* and download_filing returns None in exactly the all-failed case.        *)
(***************************************************************************)
Gets ==
    SelectSeq(events, LAMBDA e : e.kind = "get")

AllAttemptsFailed ==
    /\ Len(Gets) = retries
    /\ \A k \in 1..Len(Gets) : Gets[k].failed

C25_RetryContract ==
    retries >= 1 =>
        /\ Len(Gets) <= retries
        /\ \A k \in 1..Len(Gets) : Gets[k].attempt = k - 1
        /\ \A k \in 1..(Len(Gets) - 1) : Gets[k].failed
        /\ returned.kind = "Response" =>
               /\ ~Gets[Len(Gets)].failed
               /\ returned = Response(Gets[Len(Gets)].outcome)
        /\ returned = Pending => \A k \in 1..Len(Gets) : Gets[k].failed
        /\ returned # Pending => (returned = NoneValue <=> AllAttemptsFailed)
        /\ returned = Pending => ~AllAttemptsFailed
        /\ \A j \in 1..Len(events) :
               /\ (events[j].kind = "get" /\ events[j].failed) =>
                      IF events[j].attempt < retries - 1
                      THEN /\ j < Len(events)
                           /\ events[j + 1] =
                                  SleepEvent(events[j].attempt,
                                             10 * Pow2(events[j].attempt))
                      ELSE j = Len(events)
               /\ (events[j].kind = "sleep" /\ j > 1 /\ events[j - 1].failed) =>
                      IF j = Len(events) THEN returned = Pending
                      ELSE events[j + 1].kind = "get"
               /\ (events[j].kind = "sleep" /\ events[j].tenths >= 10) =>
                      j > 1 /\ events[j - 1].failed
        /\ downloaded # Pending =>
               (downloaded = NoneValue <=> AllAttemptsFailed)

\* download_filing has returned None after three failed attempts and the
\* two backoff sleeps of 1 and 2 seconds between them.
C25_Witness ==
    /\ caller = "download_filing"
    /\ downloaded = NoneValue
    /\ Len(events) = 5
    /\ events[2].tenths = 10
    /\ events[4].tenths = 20

====
